---- MODULE Spec2Model ----
(***************************************************************************)
(* Model of two packages of module-dep-projects:                           *)
(*   httpclient : the builder-style HTTP GET executor (HttpClient)         *)
(*   errx       : the AppError annotation helper                           *)
(* Strings that the code transforms (header keys, URLs) are sequences of   *)
(* one-character strings, so the transformations are computed.             *)
(***************************************************************************)
EXTENDS Integers, Sequences, FiniteSets, TLC

VARIABLES clients, heap, retryableStatus, last, errs

vars == <<clients, heap, retryableStatus, last, errs>>

\* Go's nil (error, []byte) as a value distinct from every string used below.
Nil == "<nil>"

-----------------------------------------------------------------------------
(* Bounds and input domains *)

MaxRetryCount == 2

Clients == {"h1", "h2"}
Solo == {"h1"}
RetryCounts == {0, MaxRetryCount}
Timeouts == {0, 2}
Options == [RetryCount : RetryCounts, Timeout : Timeouts]

-----------------------------------------------------------------------------
(* Characters *)

Lower == <<"a","b","c","d","e","f","g","h","i","j","k","l","m",
           "n","o","p","q","r","s","t","u","v","w","x","y","z">>
Upper == <<"A","B","C","D","E","F","G","H","I","J","K","L","M",
           "N","O","P","Q","R","S","T","U","V","W","X","Y","Z">>

IsLower(c) == \E i \in 1..26 : Lower[i] = c
IsUpper(c) == \E i \in 1..26 : Upper[i] = c
ToUpper(c) == IF IsLower(c) THEN Upper[CHOOSE i \in 1..26 : Lower[i] = c] ELSE c
ToLower(c) == IF IsUpper(c) THEN Lower[CHOOSE i \in 1..26 : Upper[i] = c] ELSE c
IsDigit(c) == c \in {"0","1","2","3","4","5","6","7","8","9"}

\* net/textproto validHeaderFieldByte: the token characters of RFC 7230.
validHeaderFieldByte(c) ==
    IsLower(c) \/ IsUpper(c) \/ IsDigit(c)
    \/ c \in {"!","#","$","%","&","*","+","-",".","^","_","|","~"}

\* net/textproto CanonicalMIMEHeaderKey, which http.Header.Set applies to its key:
\* a key holding a byte that is no token character is returned unchanged; otherwise
\* the first letter and every letter after a hyphen is upper-cased, the rest lowered.
CanonicalMIMEHeaderKey(s) ==
    IF \E i \in 1..Len(s) : ~validHeaderFieldByte(s[i])
    THEN s
    ELSE [i \in 1..Len(s) |->
            IF i = 1 \/ s[i-1] = "-" THEN ToUpper(s[i]) ELSE ToLower(s[i])]

K_ContentType == <<"C","o","n","t","e","n","t","-","T","y","p","e">>
K_contentType == <<"c","o","n","t","e","n","t","-","t","y","p","e">>
K_test == <<"t","e","s","t">>
K_Autorization == <<"A","u","t","o","r","i","z","a","t","i","o","n">>
K_Authorization == <<"A","u","t","h","o","r","i","z","a","t","i","o","n">>

HeaderKeys == {K_ContentType, K_contentType, K_test}
HeaderValues == {"v1", "v2"}
Tokens == {"abc", "xyz"}

\* CanonicalMIMEHeaderKey of every key the model uses, computed once.
Canonical ==
    [k \in HeaderKeys \cup {K_Autorization, K_Authorization} |-> CanonicalMIMEHeaderKey(k)]

U_empty == <<>>
U_bad == <<":","b","a","d">>
U_ok == <<"h","t","t","p",":","/","/","o","k">>
Urls == {U_empty, U_bad, U_ok}

-----------------------------------------------------------------------------
(* httpclient *)

RetryableStatusTable == {408, 429, 500, 502, 503, 504}

Statuses == {200, 404, 503}
Bodies == {"ok"}
Delays == {1, 3}

\* What the network does with one request: fail is a transport error met before any
\* response (or Nil); otherwise the response's status and body arrive after delay
\* seconds, and readErr tells whether reading the body fails part-way.
Endpoints ==
    [fail : {"connection refused"}, delay : {1}, status : {0}, body : {Nil}, readErr : {FALSE}]
    \cup [fail : {Nil}, delay : Delays, status : Statuses, body : Bodies, readErr : BOOLEAN]

NoRes == [body |-> Nil, status |-> 0, err |-> Nil, attempts |-> 0,
          opened |-> 0, closed |-> 0, built |-> FALSE, req |-> <<>>]

NoArg == <<>>

Call(op, h, key, value, res) ==
    [op |-> op, h |-> h, key |-> key, value |-> value, res |-> res]

\* Variant of MakeMap: every executor gets the same, package-level, map.
MakeMapShared(h) == "h1"

\* make(map[string]string): a reference to a new map that no other executor holds.
MakeMap(h) == h

DefaultHeader == [k \in {K_ContentType} |-> "application/json"]

Put(m, k, v) == [x \in DOMAIN m \cup {k} |-> IF x = k THEN v ELSE m[x]]

NewHttpClient(h, ops) ==
    LET ref == MakeMap(h) IN
    /\ heap' = Put(heap, ref, DefaultHeader)
    /\ clients' = Put(clients, h, [url |-> U_empty, headers |-> ref,
                                   retryCount |-> ops.RetryCount, timeout |-> ops.Timeout])
    /\ last' = Call("NewHttpClient", h, NoArg, NoArg, NoRes)
    /\ UNCHANGED <<retryableStatus, errs>>

SetUrl(h, url) ==
    /\ h \in DOMAIN clients
    /\ clients' = [clients EXCEPT ![h].url = url]
    /\ last' = Call("SetUrl", h, NoArg, url, NoRes)
    /\ UNCHANGED <<heap, retryableStatus, errs>>

SetHeaderMap(m, key, value) == Put(m, key, value)

SetHeader(h, key, value) ==
    /\ h \in DOMAIN clients
    /\ heap' = [heap EXCEPT ![clients[h].headers] = SetHeaderMap(@, key, value)]
    /\ last' = Call("SetHeader", h, key, value, NoRes)
    /\ UNCHANGED <<clients, retryableStatus, errs>>

BearerKey == K_Autorization

SetBearerToken(h, token) ==
    /\ h \in DOMAIN clients
    /\ heap' = [heap EXCEPT ![clients[h].headers] = Put(@, BearerKey, "Bearer " \o token)]
    /\ last' = Call("SetBearerToken", h, NoArg, token, NoRes)
    /\ UNCHANGED <<clients, retryableStatus, errs>>

SendPost(h) ==
    /\ h \in DOMAIN clients
    /\ last' = Call("SendPost", h, NoArg, NoArg, NoRes)
    /\ UNCHANGED <<clients, heap, retryableStatus, errs>>

\* net/url getScheme, the first step of url.Parse inside http.NewRequest: the scheme
\* is the prefix before the first ':' when it is letters (then letters, digits, + - .);
\* a ':' in first place is the parse error "missing protocol scheme"; any other
\* character before a ':' means the URL has no scheme.
RECURSIVE getSchemeFrom(_, _)
getSchemeFrom(url, i) ==
    IF i > Len(url) THEN [scheme |-> <<>>, err |-> Nil]
    ELSE IF IsLower(url[i]) \/ IsUpper(url[i]) THEN getSchemeFrom(url, i + 1)
    ELSE IF IsDigit(url[i]) \/ url[i] \in {"+", "-", "."}
         THEN IF i = 1 THEN [scheme |-> <<>>, err |-> Nil] ELSE getSchemeFrom(url, i + 1)
    ELSE IF url[i] = ":"
         THEN IF i = 1 THEN [scheme |-> <<>>, err |-> "missing protocol scheme"]
              ELSE [scheme |-> SubSeq(url, 1, i - 1), err |-> Nil]
    ELSE [scheme |-> <<>>, err |-> Nil]

\* getScheme of every URL the model uses, computed once.
getScheme == [url \in Urls |-> getSchemeFrom(url, 1)]

\* http.NewRequest("GET", url, nil): the error of parsing url, or Nil.
NewRequestErr(url) == getScheme[url].err

HttpSchemes == {<<"h","t","t","p">>, <<"h","t","t","p","s">>}

\* setHeaderInNewRequest: Header.Set(key, value) for each entry of the map, in the
\* order Go's map iteration happens to take. Set stores under the canonical key, so
\* among the entries whose keys share a canonical form the one visited last stays:
\* every result some order can leave.
setHeaderInNewRequest(headers) ==
    LET canon == {Canonical[k] : k \in DOMAIN headers} IN
    {r \in [canon -> {headers[k] : k \in DOMAIN headers}] :
        \A c \in canon : \E k \in DOMAIN headers :
            Canonical[k] = c /\ headers[k] = r[c]}

\* client.Do(request) under http.Client{Timeout: timeout seconds}: the transport
\* error met before a response is received, or Nil. A timeout of 0 is no timeout.
DoErr(url, timeout, ep) ==
    IF getScheme[url].scheme \notin HttpSchemes THEN "unsupported protocol scheme"
    ELSE IF ep.fail # Nil THEN ep.fail
    ELSE IF timeout > 0 /\ ep.delay >= timeout THEN "Client.Timeout exceeded"
    ELSE Nil

\* Variant of sendClientDoFailed: the status of the absent response, 0, is returned.
sendClientDoFailedZero(err) ==
    [body |-> Nil, status |-> 0, err |-> err, attempts |-> 1, opened |-> 0, closed |-> 0]

\* sendClient, line 91: client.Do failed.
sendClientDoFailed(err) ==
    [body |-> Nil, status |-> 500, err |-> err, attempts |-> 1, opened |-> 0, closed |-> 0]

\* Variant of sendClientReadFailed: the read error is reported with status 500.
sendClientReadFailed500(ep) ==
    [body |-> Nil, status |-> 500, err |-> "unexpected EOF",
     attempts |-> 1, opened |-> 1, closed |-> 1]

\* Variant of sendClientReadFailed: Close is called after ReadAll's error return
\* instead of being deferred, so the read-error path leaves the body open.
sendClientReadFailedNoClose(ep) ==
    [body |-> Nil, status |-> ep.status, err |-> "unexpected EOF",
     attempts |-> 1, opened |-> 1, closed |-> 0]

\* sendClient, lines 93-98: a response was received, its body is open, io.ReadAll
\* failed; the deferred resp.Body.Close() runs as the function returns.
sendClientReadFailed(ep) ==
    [body |-> Nil, status |-> ep.status, err |-> "unexpected EOF",
     attempts |-> 1, opened |-> 1, closed |-> 1]

\* Variant of sendClientRead: a 4xx/5xx status is turned into an error.
sendClientReadStatusAsError(ep) ==
    IF ep.status >= 400
    THEN [body |-> Nil, status |-> 500, err |-> "bad status",
          attempts |-> 1, opened |-> 1, closed |-> 1]
    ELSE [body |-> ep.body, status |-> ep.status, err |-> Nil,
          attempts |-> 1, opened |-> 1, closed |-> 1]

\* sendClient, lines 93-100: a response was received and its body read to the end.
sendClientRead(ep) ==
    [body |-> ep.body, status |-> ep.status, err |-> Nil,
     attempts |-> 1, opened |-> 1, closed |-> 1]

sendClient(c, ep) ==
    LET err == DoErr(c.url, c.timeout, ep) IN
    IF err # Nil THEN sendClientDoFailed(err)
    ELSE IF ep.readErr THEN sendClientReadFailed(ep)
    ELSE sendClientRead(ep)

\* SendGet, lines 58-62: http.NewRequest failed; nothing was sent.
SendGetNotBuilt(err) ==
    [body |-> Nil, status |-> 500, err |-> err, attempts |-> 0,
     opened |-> 0, closed |-> 0, built |-> FALSE, req |-> <<>>]

\* Variant of SendGetSent: the retry loop wired in, against an endpoint that answers
\* every attempt alike: a retryable outcome is attempted retryCount + 1 times.
SendGetSentRetrying(c, req, ep) ==
    LET r == sendClient(c, ep)
        again == (r.err # Nil /\ r.opened = 0) \/ (r.opened = 1 /\ r.status \in retryableStatus) IN
    [body |-> IF r.err # Nil THEN Nil ELSE r.body, status |-> r.status, err |-> r.err,
     attempts |-> IF again THEN c.retryCount + 1 ELSE 1,
     opened |-> IF again THEN r.opened * (c.retryCount + 1) ELSE r.opened,
     closed |-> IF again THEN r.closed * (c.retryCount + 1) ELSE r.closed,
     built |-> TRUE, req |-> req]

\* SendGet, lines 66-72: one call of sendClient, whose status and error are returned
\* as they are, with a nil body when the error is not nil.
SendGetSent(c, req, ep) ==
    LET r == sendClient(c, ep) IN
    [body |-> IF r.err # Nil THEN Nil ELSE r.body, status |-> r.status, err |-> r.err,
     attempts |-> r.attempts, opened |-> r.opened, closed |-> r.closed,
     built |-> TRUE, req |-> req]

SendGetResult(c, req, ep) ==
    IF NewRequestErr(c.url) # Nil THEN SendGetNotBuilt(NewRequestErr(c.url))
    ELSE SendGetSent(c, req, ep)

SendGet(h, ep) ==
    /\ h \in DOMAIN clients
    /\ \E req \in setHeaderInNewRequest(heap[clients[h].headers]) :
          last' = Call("SendGet", h, NoArg, ep, SendGetResult(clients[h], req, ep))
    /\ UNCHANGED <<clients, heap, retryableStatus, errs>>

-----------------------------------------------------------------------------
(* errx *)

ErrIds == {"e1", "e2"}
Messages == {"m"}
Codes == {"INTERNAL", "NOT_FOUND"}
CallSites == {"[a.go:10 main.f]", "[b.go:20 main.g]"}
DetailMaps == {[k \in {"k1"} |-> 1], [k \in {"k1", "k2"} |-> 2]}

\* A Go error value: nil, an error that is no AppError ("plain"), a *AppError ("app",
\* the object id), or an fmt.Errorf("%w") wrapper around a *AppError ("wrap").
NilErr == [kind |-> "nil", id |-> ""]
PlainErr == [kind |-> "plain", id |-> ""]
AppRef(e) == [kind |-> "app", id |-> e]
WrapRef(e) == [kind |-> "wrap", id |-> e]

\* A map[string]interface{} field: nil, or a map with its entries.
NilMap == [nil |-> TRUE, kv |-> <<>>]
MakeDetails == [nil |-> FALSE, kv |-> <<>>]

New(e, message) ==
    /\ e \notin DOMAIN errs
    /\ errs' = Put(errs, e, [Message |-> message, Code |-> "", Err |-> NilErr,
                              Caller |-> "", Details |-> NilMap])
    /\ UNCHANGED <<clients, heap, retryableStatus, last>>

WithCodeField(old, code) == IF old # "" THEN old ELSE code

WithCode(e, code) ==
    /\ e \in DOMAIN errs
    /\ errs' = [errs EXCEPT ![e].Code = WithCodeField(@, code)]
    /\ UNCHANGED <<clients, heap, retryableStatus, last>>

\* asAppError: errors.As walks the Unwrap chain of err to the first *AppError.
asAppError(err) ==
    IF err.kind \in {"app", "wrap"} THEN [inner |-> err.id, ok |-> TRUE]
    ELSE [inner |-> "", ok |-> FALSE]

\* Variant of InheritField: the inner error's value overwrites the receiver's.
InheritFieldOverwrite(own, inherited) == IF inherited # "" THEN inherited ELSE own

\* WithError, lines 84-86 and 88-90.
InheritField(own, inherited) == IF own = "" /\ inherited # "" THEN inherited ELSE own

\* WithError, lines 92-102.
InheritDetails(own, inherited) ==
    IF Cardinality(DOMAIN inherited.kv) > 0
    THEN LET base == IF own.nil THEN MakeDetails ELSE own IN
         [nil |-> FALSE,
          kv |-> [k \in DOMAIN base.kv \cup DOMAIN inherited.kv |->
                    IF k \in DOMAIN base.kv THEN base.kv[k] ELSE inherited.kv[k]]]
    ELSE own

WithError(e, err) ==
    /\ e \in DOMAIN errs
    /\ err.kind \in {"app", "wrap"} => err.id \in DOMAIN errs
    /\ IF err = NilErr THEN errs' = errs
       ELSE LET as == asAppError(err)
                old == errs[e]
                inherited ==
                    IF as.ok
                    THEN [old EXCEPT !.Code = InheritField(old.Code, errs[as.inner].Code),
                                     !.Caller = InheritField(old.Caller, errs[as.inner].Caller),
                                     !.Details = InheritDetails(old.Details, errs[as.inner].Details)]
                    ELSE old
            IN errs' = [errs EXCEPT ![e] = [inherited EXCEPT !.Err = err]]
    /\ UNCHANGED <<clients, heap, retryableStatus, last>>

\* WithCaller: site stands for the "[file:line function]" text of the calling frame.
WithCaller(e, site) ==
    /\ e \in DOMAIN errs
    /\ errs' = [errs EXCEPT ![e].Caller = IF @ # "" THEN @ ELSE site]
    /\ UNCHANGED <<clients, heap, retryableStatus, last>>

WithDetails(e, details) ==
    /\ e \in DOMAIN errs
    /\ errs' = [errs EXCEPT ![e].Details =
                  [nil |-> FALSE,
                   kv |-> [k \in DOMAIN @.kv \cup DOMAIN details |->
                             IF k \in DOMAIN details THEN details[k] ELSE @.kv[k]]]]
    /\ UNCHANGED <<clients, heap, retryableStatus, last>>

ErrValues == {NilErr, PlainErr} \cup {AppRef(e) : e \in ErrIds} \cup {WrapRef(e) : e \in ErrIds}

-----------------------------------------------------------------------------
(* Specifications *)

Init ==
    /\ clients = <<>>
    /\ heap = <<>>
    /\ retryableStatus = RetryableStatusTable
    /\ last = Call("init", "h1", NoArg, NoArg, NoRes)
    /\ errs = <<>>

Next ==
    \/ \E h \in Solo, ops \in Options : NewHttpClient(h, ops)
    \/ \E h \in Solo, url \in Urls : SetUrl(h, url)
    \/ \E h \in Solo, key \in HeaderKeys, value \in HeaderValues : SetHeader(h, key, value)
    \/ \E h \in Solo, token \in Tokens : SetBearerToken(h, token)
    \/ \E h \in Solo, ep \in Endpoints : SendGet(h, ep)
    \/ \E h \in Solo : SendPost(h)

Spec == Init /\ [][Next]_vars

\* Two executors side by side, on smaller input sets.
PairKeys == {K_test}
PairValues == {"v1"}
PairTokens == {"abc"}
PairUrls == {U_bad, U_ok}
PairEndpoints == {ep \in Endpoints : ep.delay = 1 /\ ~ep.readErr /\ ep.status \in {0, 200}}

NextPair ==
    \/ \E h \in Clients, ops \in Options : NewHttpClient(h, ops)
    \/ \E h \in Clients, url \in PairUrls : SetUrl(h, url)
    \/ \E h \in Clients, key \in PairKeys, value \in PairValues : SetHeader(h, key, value)
    \/ \E h \in Clients, token \in PairTokens : SetBearerToken(h, token)
    \/ \E h \in Clients, ep \in PairEndpoints : SendGet(h, ep)
    \/ \E h \in Clients : SendPost(h)

SpecPair == Init /\ [][NextPair]_vars

NextErrx ==
    \/ \E e \in ErrIds, message \in Messages : New(e, message)
    \/ \E e \in ErrIds, code \in Codes : WithCode(e, code)
    \/ \E e \in ErrIds, err \in ErrValues : WithError(e, err)
    \/ \E e \in ErrIds, site \in CallSites : WithCaller(e, site)
    \/ \E e \in ErrIds, details \in DetailMaps : WithDetails(e, details)

SpecErrx == Init /\ [][NextErrx]_vars
-----------------------------------------------------------------------------
(* Properties of SendGet. last holds the call made last, its result included. *)

Sent == last.op = "SendGet"
SentClient == clients[last.h]
SentMap == heap[SentClient.headers]
SentEp == last.value
Res == last.res

\* The request cannot be constructed: the URL does not parse.
ConstructionFails == SentClient.url = U_bad

\* The endpoint is reached and its response arrives within the timeout.
ResponseReceived ==
    /\ SentClient.url = U_ok
    /\ SentEp.fail = Nil
    /\ ~(SentClient.timeout > 0 /\ SentEp.delay >= SentClient.timeout)

\* The outcomes the retry policy calls transient: a transport error of the network
\* (connection refused, timeout) on a request sent to an http URL, or a received
\* status of the retryable-status table.
RetryableOutcome ==
    \/ SentClient.url = U_ok /\ ~ResponseReceived
    \/ ResponseReceived /\ SentEp.status \in retryableStatus

\* C1: SendGet with retryCount = R makes at most R+1 attempts and stops only at a
\* non-retryable outcome or when the R+1 attempts are used up: a call that ends on a
\* retryable outcome (an endpoint that keeps answering 503, a transport error) has
\* made exactly R+1 attempts.
C1_RetryContract ==
    Sent => /\ Res.attempts <= SentClient.retryCount + 1
            /\ RetryableOutcome => Res.attempts = SentClient.retryCount + 1

\* C2: when the request cannot be constructed, or no response is received, SendGet
\* returns a nil body, status 500 and a non-nil error; on construction failure no
\* attempt is made.
C2_NoResponseIs500 ==
    Sent => /\ ~ResponseReceived => Res.body = Nil /\ Res.status = 500 /\ Res.err # Nil
            /\ ConstructionFails => Res.attempts = 0 /\ ~Res.built

C2_Witness ==
    /\ Sent /\ SentClient.url = U_ok /\ SentClient.timeout = 2 /\ SentEp.fail = Nil
    /\ SentEp.delay = 3 /\ Res.status = 500 /\ Res.err = "Client.Timeout exceeded"

\* C3: a response received and read to the end is returned as (its body, its status
\* code, nil error), whatever the status code, 4xx and 5xx included.
C3_StatusIsNotAnError ==
    Sent /\ ResponseReceived /\ ~SentEp.readErr =>
        Res.body = SentEp.body /\ Res.status = SentEp.status /\ Res.err = Nil

C3_Witness ==
    /\ Sent /\ ResponseReceived /\ ~SentEp.readErr /\ SentEp.status = 503
    /\ Res.status = 503 /\ Res.err = Nil /\ Res.body = "ok"

\* C4: when the body of a received response cannot be read, SendGet returns a nil
\* body, the response's own status code and the read error; and in every outcome a
\* non-nil error comes with a nil body.
C4_ReadErrorKeepsStatus ==
    Sent => /\ ResponseReceived /\ SentEp.readErr =>
                Res.body = Nil /\ Res.status = SentEp.status /\ Res.err # Nil
            /\ Res.err # Nil => Res.body = Nil

C4_Witness ==
    /\ Sent /\ ResponseReceived /\ SentEp.readErr /\ SentEp.status = 404
    /\ Res.status = 404 /\ Res.err # Nil /\ Res.body = Nil

\* C5: the request built by SendGet carries exactly the pairs of the header mapping:
\* for every key of the mapping the request's header of that name (header names are
\* case-insensitive, the request holds them in canonical form) has the value the
\* mapping holds for the key, the value of the key's last insertion, and the request
\* has no other header.
C5_RequestCarriesMap ==
    Sent /\ Res.built =>
        /\ \A k \in DOMAIN SentMap :
              Canonical[k] \in DOMAIN Res.req /\ Res.req[Canonical[k]] = SentMap[k]
        /\ \A c \in DOMAIN Res.req : \E k \in DOMAIN SentMap : Canonical[k] = c

\* C6: after SetBearerToken(t) the header mapping holds the key "Authorization" with
\* the value "Bearer " followed by t.
C6_BearerSetsAuthorization ==
    last.op = "SetBearerToken" =>
        /\ K_Authorization \in DOMAIN SentMap
        /\ SentMap[K_Authorization] = "Bearer " \o last.value

\* C7: when a response was received its body is closed exactly once before SendGet
\* returns, whether reading it succeeded or failed; when none was received, nothing
\* was opened and nothing is left open.
C7_BodyClosedOnce ==
    Sent => /\ ResponseReceived => Res.opened = 1 /\ Res.closed = 1
            /\ ~ResponseReceived => Res.opened = 0 /\ Res.closed = 0

C7_Witness ==
    Sent /\ ResponseReceived /\ SentEp.readErr /\ Res.opened = 1 /\ Res.closed = 1

\* C10: SendGet makes exactly one attempt on every request it could construct,
\* whatever retryCount is and whatever the outcome (retryable status, other status,
\* transport error), and its result is the one an executor with retryCount 0 gets.
C10_SingleAttempt ==
    Sent /\ ~ConstructionFails =>
        /\ Res.attempts = 1
        /\ Res = SendGetResult([SentClient EXCEPT !.retryCount = 0], Res.req, SentEp)

C10_Witness ==
    /\ Sent /\ SentClient.retryCount = MaxRetryCount /\ ResponseReceived
    /\ Res.status = 503 /\ Res.status \in retryableStatus /\ Res.attempts = 1

-----------------------------------------------------------------------------
(* Ownership of the executors' state *)

\* A step leaves executor h as it was: its fields and the map its headers field
\* refers to.
Untouched(h) ==
    /\ h \in DOMAIN clients'
    /\ clients'[h] = clients[h]
    /\ heap'[clients'[h].headers] = heap[clients[h].headers]

\* C8: NewHttpClient returns an executor holding exactly {Content-Type:
\* application/json}; a call on one executor leaves every other executor's url,
\* headers, retryCount and timeout as they were; the retryable-status table is never
\* modified.
C8_ExecutorsAreIndependent ==
    /\ [](last.op = "NewHttpClient" =>
            /\ SentMap = DefaultHeader
            /\ SentClient.url = U_empty)
    /\ [][\A h \in DOMAIN clients : last'.h # h => Untouched(h)]_vars
    /\ [](retryableStatus = RetryableStatusTable)

C8_Witness ==
    /\ DOMAIN clients = Clients
    /\ last.op = "NewHttpClient" /\ last.h = "h2"
    /\ heap[clients["h2"].headers] = DefaultHeader
    /\ K_test \in DOMAIN heap[clients["h1"].headers]
    /\ K_Autorization \in DOMAIN heap[clients["h1"].headers]
    /\ clients["h1"].url = U_ok

-----------------------------------------------------------------------------
(* errx *)

\* What WithError(err) leaves in receiver e when err holds the AppError inner.
Inherits(e, inner, err) ==
    LET old == errs[e]
        new == errs'[e]
        inn == errs[inner] IN
    /\ new.Code = IF old.Code # "" THEN old.Code ELSE inn.Code
    /\ new.Caller = IF old.Caller # "" THEN old.Caller ELSE inn.Caller
    /\ DOMAIN new.Details.kv = DOMAIN old.Details.kv \cup DOMAIN inn.Details.kv
    /\ \A k \in DOMAIN old.Details.kv : new.Details.kv[k] = old.Details.kv[k]
    /\ \A k \in DOMAIN inn.Details.kv \ DOMAIN old.Details.kv :
          new.Details.kv[k] = inn.Details.kv[k]
    /\ new.Message = old.Message
    /\ new.Err = err

\* C9: WithError(err), err holding an AppError, fills the receiver's empty Code and
\* Caller and its missing Details keys from that AppError, changes nothing that was
\* set, and sets Err to err; WithError(nil) changes nothing; and over any calls a
\* Code that is not empty never changes.
C9_WithErrorInherits ==
    /\ [][\A e \in DOMAIN errs :
            /\ WithError(e, NilErr) => errs' = errs
            /\ \A err \in ErrValues \ {NilErr} :
                  errs'[e].Err = err /\ WithError(e, err) =>
                      /\ err.kind \in {"app", "wrap"} => Inherits(e, err.id, err)
                      /\ \A o \in DOMAIN errs \ {e} : errs'[o] = errs[o]]_vars
    /\ [][\A e \in DOMAIN errs : errs[e].Code # "" => errs'[e].Code = errs[e].Code]_vars

C9_Witness ==
    /\ DOMAIN errs = ErrIds
    /\ errs["e1"].Err = WrapRef("e2")
    /\ errs["e1"].Code = "INTERNAL" /\ errs["e2"].Code = "NOT_FOUND"
    /\ errs["e1"].Caller = errs["e2"].Caller /\ errs["e1"].Caller # ""
    /\ errs["e1"].Details.kv = [k \in {"k1", "k2"} |-> IF k = "k1" THEN 1 ELSE 2]
    /\ errs["e2"].Details.kv = [k \in {"k1", "k2"} |-> 2]
====
